---- MODULE Spec2Model ----
(***************************************************************************)
(* CLPRemoteHandler (src/src/clp_logging/remote_handlers.py): the chunked  *)
(* multipart upload of a local log file to S3.                             *)
(*                                                                         *)
(* The engine's fields are the variables of the same name.  Every handler  *)
(* (initiate_upload, multipart_upload, complete_upload, timeout, close) is *)
(* a sequence of steps, one per storage-service call it issues; pc is the  *)
(* handler's position; at "returned" the caller holds the handler's outcome *)
(* and at "ready" it may call the next handler.  Each                      *)
(* storage-service call may succeed or fail; the service's answer is       *)
(* drawn with \E from the answers S3 can give in the service's state.      *)
(*                                                                         *)
(* Sizes are scaled: the chunk is ChunkSize bytes instead of 5 MiB and the *)
(* part-count limit is Ceiling instead of 10000.                           *)
(***************************************************************************)
EXTENDS Integers, Sequences, FiniteSets, TLC

\* multipart_upload_config["size"] as constructed (1024 * 1024 * 5), scaled.
ChunkSize == 2
\* The part-count limit of one S3 object (10000), scaled.
Ceiling == 3

\* Bounds of the model.
MaxFileSize == 4
MaxClock == 1
MaxUploads == 2

\* Python's None, for the string-valued fields and for upload_id.
None == <<"None">>
NoId == 0

\* Path("a.c.z"), the local log file.
Paths == { <<"a", ".", "c", ".", "z">> }

Errors == {"error", "nocred"}
Answers == {"ok"} \cup Errors

VARIABLES
    \* CLPRemoteHandler's fields
    log_name, log_path, remote_folder_path, obj_key,
    multipart_upload_config, uploaded_parts, upload_id,
    remote_file_count, upload_in_progress,
    \* the running handler: its position, its name, its local file_size,
    \* the exception in flight
    pc, op, file_size, exc,
    \* the environment: the size of each local file, the wall clock, the
    \* multipart uploads the service knows (the token is the index)
    fsize, clock, uploads,
    \* observation: the service request issued by the last step, the outcome
    \* of the last handler that returned, the tokens a part upload failed
    \* under, the object keys named so far, and the progress of the scenario
    \* initiate; drive+; complete
    call, result, failed_tokens, keys, scen

engine == <<log_name, log_path, remote_folder_path, obj_key,
            multipart_upload_config, uploaded_parts, upload_id,
            remote_file_count, upload_in_progress>>
control == <<pc, op, file_size, exc>>
env == <<fsize, clock, uploads>>
obs == <<call, result, failed_tokens, keys, scen>>
vars == <<engine, control, env, obs>>

size == multipart_upload_config.size
index == multipart_upload_config.index
pos == multipart_upload_config.pos

----
\* Text: a string is the sequence of its characters.

Digits == <<"0", "1", "2", "3", "4", "5", "6", "7", "8", "9">>

RECURSIVE Str(_)
\* str(n) for n >= 0
Str(n) == IF n < 10 THEN <<Digits[n + 1]>>
          ELSE Str(n \div 10) \o <<Digits[(n % 10) + 1]>>

RECURSIVE ZeroPad(_, _)
\* zero-padded decimal of width w, as strftime's %Y %m %d %H %M %S write it
ZeroPad(n, w) == IF w = 0 THEN <<>>
                 ELSE ZeroPad(n \div 10, w - 1) \o <<Digits[(n % 10) + 1]>>

RECURSIVE FindFrom(_, _, _)
FindFrom(s, c, i) == IF i > Len(s) THEN -1
                     ELSE IF s[i] = c THEN i - 1
                     ELSE FindFrom(s, c, i + 1)

\* s.find(c): 0-based index of the first c, -1 when absent
Find(s, c) == FindFrom(s, c, 1)

\* s[i:] with a 0-based i
Suffix(s, i) == SubSeq(s, i + 1, Len(s))

\* The datetime whose second is t; clock is the second datetime.now() last
\* answered, and the next answer is not earlier.
DateTime(t) == [year |-> 2024, month |-> 11, day |-> 22,
                hour |-> 17, minute |-> 5, second |-> t]

Times == clock..MaxClock

\* timestamp.strftime("%Y-%m-%d-%H%M%S")
Strftime(t) == ZeroPad(t.year, 4) \o <<"-">> \o ZeroPad(t.month, 2) \o <<"-">>
               \o ZeroPad(t.day, 2) \o <<"-">> \o ZeroPad(t.hour, 2)
               \o ZeroPad(t.minute, 2) \o ZeroPad(t.second, 2)

\* f"logs/{timestamp.year}/{timestamp.month}/{timestamp.day}"
RemoteFolderPath(t) == <<"l", "o", "g", "s", "/">> \o Str(t.year) \o <<"/">>
                       \o Str(t.month) \o <<"/">> \o Str(t.day)

\* UploadTime without the count of remote files
UploadTime_NoCount(t, count) == Strftime(t)

\* The upload_time of _remote_log_naming: the timestamp, and the count of
\* remote files when it is not 0.
UploadTime(t, count) ==
    IF count # 0 THEN Strftime(t) \o <<"-">> \o Str(count) ELSE Strftime(t)

\* _remote_log_naming(timestamp) with the given log_name, folder and count
RemoteLogNaming(name, folder, t, count) ==
    LET ext == Find(name, ".")
        new_filename ==
            IF ext # -1
            THEN <<"l", "o", "g", "_">> \o UploadTime(t, count) \o Suffix(name, ext)
            ELSE UploadTime(t, count) \o <<"_">> \o name
    IN  folder \o <<"/">> \o new_filename

----
\* The storage service.  A token is the index of its upload in uploads.

NoCall == [api |-> "none", Key |-> None, UploadId |-> NoId, PartNumber |-> 0,
           Parts |-> <<>>]

Known(tok) == tok \in 1..Len(uploads)

Min(a, b) == IF a < b THEN a ELSE b
Max(a, b) == IF a > b THEN a ELSE b

\* _calculate_part_sha256(data): the digest identifies the data
CalculatePartSha256(data) == <<"sha256", data>>

\* The ETag the service answers an upload_part with
ETagOf(data) == <<"etag", data>>

\* A part listed in a completion request is one the service holds for this
\* upload, under that number and with that ETag.
ValidPart(tok, part) ==
    \E i \in 1..Len(uploads[tok].parts) :
        /\ uploads[tok].parts[i].PartNumber = part.PartNumber
        /\ uploads[tok].parts[i].ETag = part.ETag

\* The answers s3_client.create_multipart_upload can give: the number of
\* uploads the service accepts is bounded.
CreateAnswers == IF Len(uploads) < MaxUploads THEN Answers ELSE Errors

\* The answers s3_client.upload_part can give: it fails for an upload that
\* is not open (NoSuchUpload) and for a part number beyond the limit.
UploadPartAnswers(key, tok, num) ==
    IF /\ Known(tok)
       /\ uploads[tok].status = "open"
       /\ uploads[tok].Key = key
       /\ num \in 1..Ceiling
    THEN Answers ELSE Errors

\* The answers s3_client.complete_multipart_upload can give: it fails for
\* an upload that is not open, for an empty list, and for a listed part
\* the upload does not hold (InvalidPart).
CompleteAnswers(key, tok, parts) ==
    IF /\ Known(tok)
       /\ uploads[tok].status = "open"
       /\ uploads[tok].Key = key
       /\ parts # <<>>
       /\ \A i \in 1..Len(parts) : ValidPart(tok, parts[i])
    THEN Answers ELSE Errors

\* The answers s3_client.abort_multipart_upload can give: it fails for a
\* completed upload and for a key that is not the upload's.
AbortAnswers(key, tok) ==
    IF /\ Known(tok)
       /\ uploads[tok].status # "completed"
       /\ uploads[tok].Key = key
    THEN Answers ELSE Errors

\* s3_client.create_multipart_upload(Key=key): on "ok" the service opens
\* an upload and answers its token, Len(uploads').
CreateMultipartUpload(key, ans) ==
    /\ ans \in CreateAnswers
    /\ call' = [NoCall EXCEPT !.api = "create", !.Key = key]
    /\ uploads' = IF ans = "ok"
                  THEN Append(uploads, [Key |-> key, status |-> "open",
                                        parts |-> <<>>])
                  ELSE uploads

\* s3_client.upload_part(Key, Body, PartNumber, UploadId, ChecksumSHA256);
\* phase names the handler that sent it.
UploadPart(key, tok, num, data, phase, ans) ==
    /\ ans \in UploadPartAnswers(key, tok, num)
    /\ call' = [NoCall EXCEPT !.api = "upload_part", !.Key = key,
                              !.UploadId = tok, !.PartNumber = num]
    /\ uploads' = IF ans = "ok"
                  THEN [uploads EXCEPT ![tok].parts =
                            Append(@, [PartNumber |-> num, ETag |-> ETagOf(data),
                                       len |-> data.len, phase |-> phase])]
                  ELSE uploads

\* s3_client.complete_multipart_upload(Key, UploadId, MultipartUpload)
CompleteMultipartUpload(key, tok, parts, ans) ==
    /\ ans \in CompleteAnswers(key, tok, parts)
    /\ call' = [NoCall EXCEPT !.api = "complete", !.Key = key,
                              !.UploadId = tok, !.Parts = parts]
    /\ uploads' = IF ans = "ok"
                  THEN [uploads EXCEPT ![tok].status = "completed"]
                  ELSE uploads

\* s3_client.abort_multipart_upload(Key, UploadId)
AbortMultipartUpload(key, tok, ans) ==
    /\ ans \in AbortAnswers(key, tok)
    /\ call' = [NoCall EXCEPT !.api = "abort", !.Key = key, !.UploadId = tok]
    /\ uploads' = IF ans = "ok"
                  THEN [uploads EXCEPT ![tok].status = "aborted"]
                  ELSE uploads

\* A run is followed while the service can still serve the engine: it has
\* an open upload, or it has opened fewer than MaxUploads.
Live == \/ Len(uploads) < MaxUploads
        \/ \E tok \in 1..Len(uploads) : uploads[tok].status = "open"

\* The caller, or the writer of the file, may take its next step.
CallerReady == pc = "ready" /\ Live

----
\* Exceptions and the return of a handler.

\* An exception: its kind, the part it names, and the failure it was
\* raised from.
NoExc == [kind |-> "none", part |-> 0, cause |-> "none"]
Exc(kind) == [kind |-> kind, part |-> 0, cause |-> kind]
\* Exception(f'Multipart Upload on Part {index}: {e}') from e
PartExc(i, e) == [kind |-> "PartUpload", part |-> i, cause |-> e]

\* The scenario "fresh engine: initiate; drive, once or more; complete,
\* every call returning normally, the file not written meanwhile".
ScenAfter(o, e) ==
    CASE e # NoExc -> "off"
      [] o = "initiate" /\ scen = "fresh" -> "initiated"
      [] o = "drive" /\ scen \in {"initiated", "driven"} -> "driven"
      [] o = "complete" /\ scen = "driven" -> "completed"
      [] OTHER -> "off"

NoResult == [op |-> "none", err |-> "none", part |-> 0, cause |-> "none"]

\* initiate_upload, multipart_upload or complete_upload (o is "initiate",
\* "drive" or "complete") returns, normally (e = NoExc) or raising e, to
\* the caller or through timeout() or close(), which catch nothing; its
\* local file_size is gone.
Return(o, e) ==
    /\ pc' = "returned"
    /\ op' = o
    /\ exc' = NoExc
    /\ file_size' = 0
    /\ result' = [op |-> o, err |-> e.kind, part |-> e.part,
                   cause |-> e.cause]
    /\ scen' = ScenAfter(o, e)

\* An exception e reaches the except clauses of the running handler:
\* multipart_upload re-raises NoCredentialsError and aborts on any other;
\* complete_upload aborts on any.
Reraised(o, e) == o = "drive" /\ e.kind = "nocred"

Except(e) ==
    IF Reraised(op, e)
    THEN Return(op, e)
    ELSE /\ pc' = "handler_abort"
         /\ exc' = e
         /\ UNCHANGED <<op, file_size, result, scen>>

----
\* The handlers.

Init ==
    /\ log_name = None
    /\ log_path = None
    /\ remote_folder_path = None
    /\ obj_key = None
    /\ multipart_upload_config = [size |-> ChunkSize, index |-> 1, pos |-> 0]
    /\ uploaded_parts = <<>>
    /\ upload_id = NoId
    /\ remote_file_count = 0
    /\ upload_in_progress = FALSE
    /\ pc = "ready"
    /\ op = "none"
    /\ file_size = 0
    /\ exc = NoExc
    /\ fsize \in [Paths -> 0..MaxFileSize]
    /\ clock = 0
    /\ uploads = <<>>
    /\ call = NoCall
    /\ result = NoResult
    /\ failed_tokens = {}
    /\ keys = {}
    /\ scen = "fresh"

\* initiate_upload without its guard
AlreadyInProgress_Never == FALSE

\* initiate_upload's guard
AlreadyInProgress == upload_in_progress

\* The guard testing upload_in_progress in place of upload_id
NoUploadProcess_InProgress == ~upload_in_progress

\* multipart_upload's and complete_upload's guard: "not self.upload_id"
NoUploadProcess == upload_id = NoId

\* Path.name: the paths of the model have no directory
PathName(p) == p

\* The body of initiate_upload(p) past its guard, datetime.now() answering
\* second t and the service answering ans to create_multipart_upload.
Initiate(p, t, ans) ==
    LET timestamp == DateTime(t)
        folder == RemoteFolderPath(timestamp)
        key == RemoteLogNaming(PathName(p), folder, timestamp, remote_file_count)
    IN  /\ log_path' = p
        /\ clock' = t
        /\ log_name' = PathName(p)
        /\ upload_in_progress' = TRUE
        /\ remote_folder_path' = folder
        /\ obj_key' = key
        /\ keys' = keys \cup {key}
        /\ CreateMultipartUpload(key, ans)
        /\ upload_id' = IF ans = "ok" THEN Len(uploads') ELSE upload_id
        /\ UNCHANGED <<multipart_upload_config, uploaded_parts,
                       remote_file_count>>

\* initiate_upload(log_path)
InitiateUpload(p) ==
    /\ CallerReady
    /\ IF AlreadyInProgress
       THEN /\ Return("initiate", Exc("AlreadyInProgress"))
            /\ call' = NoCall
            /\ UNCHANGED <<engine, uploads, clock, keys>>
       ELSE \E t \in Times, ans \in Answers :
                /\ Initiate(p, t, ans)
                /\ Return("initiate", IF ans = "ok" THEN NoExc ELSE Exc(ans))
    /\ UNCHANGED <<fsize, failed_tokens>>

\* multipart_upload() up to its loop: the guard and the stat of the file
EnterMultipartUpload(o) ==
    IF NoUploadProcess
    THEN Return(o, Exc("NoUploadProcess"))
    ELSE /\ file_size' = fsize[log_path]
         /\ pc' = "loop"
         /\ op' = o
         /\ UNCHANGED <<exc, result, scen>>

MultipartUpload ==
    /\ CallerReady
    /\ EnterMultipartUpload("drive")
    /\ call' = NoCall
    /\ UNCHANGED <<engine, env, failed_tokens, keys>>

\* The bytes _upload_part reads: seek(pos), read(size) on the file as it
\* is now; read of a negative size reads to the end of the file.
ReadLen == IF size < 0 THEN Max(0, fsize[log_path] - pos)
           ELSE Max(0, Min(size, fsize[log_path] - pos))

UploadData == [path |-> log_path, off |-> pos, len |-> ReadLen]

\* _upload_part(), called by the handler in phase: the read of the file,
\* the upload_part request and the part record it returns.  It ends in
\* one of three ways: the record is returned, and the caller appends it,
\* updates its configuration to config and goes on at next_pc; the read
\* raises; the request raises and _upload_part goes to its own except
\* clause.
UploadPartStep(phase, config, next_pc) ==
    IF pos < 0
    THEN \* file.seek of a negative offset raises OSError
         /\ Except(Exc("IOError"))
         /\ call' = NoCall
         /\ UNCHANGED <<engine, env, failed_tokens, keys>>
    ELSE \E ans \in Answers :
            /\ UploadPart(obj_key, upload_id, index, UploadData, phase, ans)
            /\ IF ans = "ok"
               THEN /\ uploaded_parts' =
                           Append(uploaded_parts,
                                  [PartNumber |-> index,
                                   ETag |-> ETagOf(UploadData),
                                   ChecksumSHA256 |-> CalculatePartSha256(UploadData)])
                    /\ multipart_upload_config' = config
                    /\ pc' = next_pc
                    /\ UNCHANGED <<log_name, log_path, remote_folder_path,
                                   obj_key, upload_id, remote_file_count,
                                   upload_in_progress,
                                   op, file_size, exc, result, scen,
                                   failed_tokens>>
               ELSE /\ pc' = "part_abort"
                    /\ exc' = PartExc(index, ans)
                    /\ failed_tokens' = failed_tokens \cup {upload_id}
                    /\ UNCHANGED <<engine, op, file_size, result, scen>>
            /\ UNCHANGED <<fsize, clock, keys>>

\* The loop condition with > in place of >=
LoopCondition_Strict == file_size - pos > size

\* The condition of multipart_upload's while loop
LoopCondition == file_size - pos >= size

\* The rollover test after a part is appended
CeilingReached(i) == i >= Ceiling

\* multipart_upload_config after multipart_upload's loop has advanced
\* index and pos past the part _upload_part returned
AfterDrivePart ==
    [multipart_upload_config EXCEPT !.index = @ + 1, !.pos = @ + size]

\* One pass of multipart_upload's while loop, or its normal return
DriveLoop ==
    /\ pc = "loop"
    /\ IF LoopCondition
       THEN UploadPartStep("drive", AfterDrivePart,
                           IF CeilingReached(AfterDrivePart.index)
                           THEN "roll_complete" ELSE "loop")
       ELSE /\ Return(op, NoExc)
            /\ call' = NoCall
            /\ UNCHANGED <<engine, env, failed_tokens, keys>>

\* The except clause of _upload_part: abort, then raise the exception that
\* names the part; a failing abort raises its own exception instead.
PartAbort ==
    /\ pc = "part_abort"
    /\ \E ans \in Answers :
          /\ AbortMultipartUpload(obj_key, upload_id, ans)
          /\ Except(IF ans = "ok" THEN exc ELSE Exc(ans))
    /\ UNCHANGED <<engine, fsize, clock, failed_tokens, keys>>

\* The except clause of multipart_upload and of complete_upload: abort,
\* then re-raise; a failing abort raises its own exception instead.
HandlerAbort ==
    /\ pc = "handler_abort"
    /\ \E ans \in Answers :
          /\ AbortMultipartUpload(obj_key, upload_id, ans)
          /\ Return(op, IF ans = "ok" THEN exc ELSE Exc(ans))
    /\ UNCHANGED <<engine, fsize, clock, failed_tokens, keys>>

\* The list a completion request carries
PartsList == [i \in 1..Len(uploaded_parts) |->
                 [PartNumber |-> uploaded_parts[i].PartNumber,
                  ETag |-> uploaded_parts[i].ETag,
                  ChecksumSHA256 |-> uploaded_parts[i].ChecksumSHA256]]

\* The rollover resetting pos with index
RolloverConfig_ResetPos ==
    [multipart_upload_config EXCEPT !.index = 1, !.pos = 0]

\* The rollover leaving index as it is
RolloverConfig_KeepIndex == multipart_upload_config

\* multipart_upload_config after the rollover's reset of index
RolloverConfig == [multipart_upload_config EXCEPT !.index = 1]

\* Rollover, first half: complete the current object, count the remote
\* file, name the next object, reset index and uploaded_parts.
RolloverComplete ==
    /\ pc = "roll_complete"
    /\ \E t \in Times, ans \in Answers :
          /\ CompleteMultipartUpload(obj_key, upload_id, PartsList, ans)
          /\ IF ans = "ok"
             THEN LET timestamp == DateTime(t)
                      folder == RemoteFolderPath(timestamp)
                  IN  /\ remote_file_count' = remote_file_count + 1
                      /\ clock' = t
                      /\ remote_folder_path' = folder
                      /\ obj_key' = RemoteLogNaming(log_name, folder, timestamp,
                                                    remote_file_count + 1)
                      /\ keys' = keys \cup {obj_key'}
                      /\ multipart_upload_config' = RolloverConfig
                      /\ uploaded_parts' = <<>>
                      /\ pc' = "roll_create"
                      /\ UNCHANGED <<log_name, log_path, upload_id,
                                     upload_in_progress,
                                     op, file_size, exc, result, scen>>
             ELSE /\ t = clock
                  /\ Except(Exc(ans))
                  /\ UNCHANGED <<engine, clock, keys>>
    /\ UNCHANGED <<fsize, failed_tokens>>

\* Rollover, second half: open the next object's upload.
RolloverCreate ==
    /\ pc = "roll_create"
    /\ \E ans \in Answers :
          /\ CreateMultipartUpload(obj_key, ans)
          /\ IF ans = "ok"
             THEN /\ upload_id' = Len(uploads')
                  /\ pc' = "loop"
                  /\ UNCHANGED <<op, file_size, exc, result, scen>>
             ELSE /\ Except(Exc(ans))
                  /\ UNCHANGED upload_id
    /\ UNCHANGED <<log_name, log_path, remote_folder_path, obj_key,
                   multipart_upload_config, uploaded_parts, remote_file_count,
                   upload_in_progress, fsize, clock, failed_tokens, keys>>

\* complete_upload() up to its first request: the guard, the stat of the
\* file, and the chunk size set to the remaining segment when that is
\* smaller than the chunk size.
RemainingSegment == fsize[log_path] - pos

EnterCompleteUpload(o) ==
    IF NoUploadProcess
    THEN /\ Return(o, Exc("NoUploadProcess"))
         /\ UNCHANGED multipart_upload_config
    ELSE /\ file_size' = fsize[log_path]
         /\ op' = o
         /\ IF RemainingSegment < size
            THEN /\ multipart_upload_config' =
                        [multipart_upload_config EXCEPT !.size = RemainingSegment]
                 /\ pc' = "comp_part"
            ELSE /\ pc' = "comp_final"
                 /\ UNCHANGED multipart_upload_config
         /\ UNCHANGED <<exc, result, scen>>

CompleteUpload ==
    /\ CallerReady
    /\ EnterCompleteUpload("complete")
    /\ call' = NoCall
    /\ UNCHANGED <<log_name, log_path, remote_folder_path, obj_key,
                   uploaded_parts, upload_id, remote_file_count,
                   upload_in_progress, env, failed_tokens, keys>>

\* multipart_upload_config after complete_upload has advanced index past
\* the part _upload_part returned
AfterCompletePart == [multipart_upload_config EXCEPT !.index = @ + 1]

\* The upload of the remaining segment
CompletePart ==
    /\ pc = "comp_part"
    /\ UploadPartStep("complete", AfterCompletePart, "comp_final")

\* The completion request of complete_upload, outside its try
CompleteFinal ==
    /\ pc = "comp_final"
    /\ \E ans \in Answers :
          /\ CompleteMultipartUpload(obj_key, upload_id, PartsList, ans)
          /\ IF ans = "ok"
             THEN /\ pc' = "comp_head"
                  /\ UNCHANGED <<op, file_size, exc, result, scen>>
             ELSE Return(op, Exc(ans))
    /\ UNCHANGED <<engine, fsize, clock, failed_tokens, keys>>

\* head_object, whose failure is printed, and the reset that ends
\* complete_upload
CompleteHead ==
    /\ pc = "comp_head"
    /\ call' = [NoCall EXCEPT !.api = "head", !.Key = obj_key]
    /\ upload_in_progress' = FALSE
    /\ upload_id' = NoId
    /\ obj_key' = None
    /\ Return(op, NoExc)
    /\ UNCHANGED <<log_name, log_path, remote_folder_path,
                   multipart_upload_config, uploaded_parts, remote_file_count,
                   env, failed_tokens, keys>>

\* timeout(log_path): when there is no upload, the base handler is
\* constructed on log_path and initiate_upload(log_path) is called; then
\* multipart_upload(); an exception of either is the caller's.
Timeout(p) ==
    /\ CallerReady
    /\ IF NoUploadProcess
       THEN IF AlreadyInProgress
            THEN /\ Return("initiate", Exc("AlreadyInProgress"))
                 /\ call' = NoCall
                 /\ UNCHANGED <<engine, uploads, clock, keys>>
            ELSE \E t \in Times, ans \in Answers :
                    /\ Initiate(p, t, ans)
                    /\ IF ans = "ok"
                       THEN /\ file_size' = fsize[p]
                            /\ pc' = "loop"
                            /\ op' = "drive"
                            /\ scen' = ScenAfter("initiate", NoExc)
                            /\ UNCHANGED <<exc, result>>
                       ELSE Return("initiate", Exc(ans))
       ELSE /\ EnterMultipartUpload("drive")
            /\ call' = NoCall
            /\ UNCHANGED <<engine, uploads, clock, keys>>
    /\ UNCHANGED <<fsize, failed_tokens>>

\* close(): the base handler's close() leaves the handler closed, and
\* complete_upload() follows, whether an upload is open or not.
Close ==
    /\ CallerReady
    /\ EnterCompleteUpload("complete")
    /\ call' = NoCall
    /\ UNCHANGED <<log_name, log_path, remote_folder_path, obj_key,
                   uploaded_parts, upload_id, remote_file_count,
                   upload_in_progress, env, failed_tokens, keys>>

\* The caller has the outcome of the handler it called and goes on.
Resume ==
    /\ pc = "returned"
    /\ pc' = "ready"
    /\ op' = "none"
    /\ result' = NoResult
    /\ call' = NoCall
    /\ UNCHANGED <<engine, env, file_size, exc, failed_tokens, keys, scen>>

----
\* The environment.

\* Another writer appends a byte to a local file; the handlers stat the
\* file once, so the append is observed by the next handler.
Grow(p) ==
    /\ CallerReady
    /\ fsize[p] < MaxFileSize
    /\ fsize' = [fsize EXCEPT ![p] = @ + 1]
    /\ scen' = IF scen = "fresh" THEN "fresh" ELSE "off"
    /\ UNCHANGED <<engine, control, clock, uploads, call, result,
                   failed_tokens, keys>>

Next ==
    \/ \E p \in Paths : InitiateUpload(p)
    \/ MultipartUpload
    \/ DriveLoop
    \/ PartAbort
    \/ HandlerAbort
    \/ RolloverComplete
    \/ RolloverCreate
    \/ CompleteUpload
    \/ CompletePart
    \/ CompleteFinal
    \/ CompleteHead
    \/ \E p \in Paths : Timeout(p)
    \/ Close
    \/ Resume
    \/ \E p \in Paths : Grow(p)

Spec == Init /\ [][Next]_vars

\* The values the model keeps its variables in.
TypeOK ==
    /\ pc \in {"ready", "returned", "loop", "part_abort", "handler_abort", "roll_complete",
               "roll_create", "comp_part", "comp_final", "comp_head"}
    /\ upload_id \in 0..MaxUploads
    /\ index \in 1..(Ceiling + 1)
    /\ Len(uploaded_parts) <= Ceiling
    /\ Len(uploads) <= MaxUploads

----
\* The claims.

\* The parts the service holds that the given phase sent, each as
\* <<token, place in the upload's list>>, and the length of one.
SentIn(phase) ==
    UNION { { <<tok, i>> : i \in { j \in 1..Len(uploads[tok].parts) :
                                     uploads[tok].parts[j].phase = phase } } :
            tok \in 1..Len(uploads) }

PartLen(p) == uploads[p[1]].parts[p[2]].len

\* C1: on a fresh engine and a file of fixed size S, after initiate, one or
\* more drives and complete, all returning normally, the drives have
\* uploaded exactly S div ChunkSize parts of ChunkSize bytes each and, when
\* S mod ChunkSize > 0, complete has uploaded exactly one part, of
\* S mod ChunkSize bytes.
C1_PartsOfFullSession ==
    scen = "completed" =>
        LET S == fsize[log_path]
        IN  /\ Cardinality(SentIn("drive")) = S \div ChunkSize
            /\ \A p \in SentIn("drive") : PartLen(p) = ChunkSize
            /\ S % ChunkSize > 0 =>
                   /\ Cardinality(SentIn("complete")) = 1
                   /\ \A p \in SentIn("complete") : PartLen(p) = S % ChunkSize

\* A full session on a file of more than one chunk with a remainder
C1_Witness ==
    /\ scen = "completed"
    /\ fsize[log_path] > ChunkSize
    /\ fsize[log_path] % ChunkSize > 0

\* C2: a failed part upload is followed by an abort request for the
\* current key and token, and no part upload is ever issued again for a
\* token a part upload has failed under.
C2_NoPartUploadAfterFailure ==
    [][ /\ pc = "part_abort" =>
              /\ call'.api = "abort"
              /\ call'.Key = obj_key
              /\ call'.UploadId = upload_id
        /\ call'.api = "upload_part" => call'.UploadId \notin failed_tokens ]_vars

\* A handler has raised an exception from its try block or from its
\* completion request.
FailedInSession ==
    /\ pc = "returned"
    /\ result.op \in {"drive", "complete"}
    /\ result.err \notin {"none", "NoUploadProcess"}

\* C3: after a failure during drive or complete the session is not active
\* any more and the engine is reset, so that initiate_upload is accepted.
C3_FailureResetsSession ==
    FailedInSession => ~upload_in_progress /\ upload_id = NoId

\* The uploads the service holds open
OpenUploads == { tok \in 1..Len(uploads) : uploads[tok].status = "open" }

\* C4: initiate_upload called while an upload is in progress raises
\* AlreadyInProgress, issues no request and leaves the engine and the
\* service as they are; at most one upload is open at any time.
C4_SecondInitiateRejected ==
    /\ [](Cardinality(OpenUploads) <= 1)
    /\ [][ (pc = "ready" /\ upload_in_progress /\ result'.op = "initiate") =>
              /\ result'.err = "AlreadyInProgress"
              /\ call' = NoCall
              /\ UNCHANGED <<engine, uploads>> ]_vars

\* The second initiate_upload has been rejected and the first upload is
\* still the engine's and still open.
C4_Witness ==
    /\ pc = "returned"
    /\ result.op = "initiate"
    /\ result.err = "AlreadyInProgress"
    /\ upload_id \in OpenUploads

\* C5: every completion request lists the part numbers 1..n, in this
\* order, n being the number of parts listed.
C5_PartNumbersContiguous ==
    call.api = "complete" =>
        \A i \in 1..Len(call.Parts) : call.Parts[i].PartNumber = i

\* A completion request of two parts or more, issued for the upload of a
\* second session or of a rollover
C5_Witness ==
    /\ call.api = "complete"
    /\ call.UploadId > 1
    /\ Len(call.Parts) > 1

\* C6: after a full session on a file of size S, pos is S.
C6_CursorAtEndOfFile ==
    scen = "completed" => pos = fsize[log_path]

\* C7: a rollover is issued when, and only when, the current object holds
\* Ceiling parts, so that uploaded_parts never holds more than Ceiling.
C7_RolloverAtCeiling ==
    /\ pc = "roll_complete" => Len(uploaded_parts) = Ceiling
    /\ Len(uploaded_parts) <= Ceiling

\* C8: the key a rollover names is none of the keys named before it.
C8_RolloverKeyFresh ==
    [][ (pc = "roll_complete" /\ pc' = "roll_create") =>
            obj_key' \notin keys ]_vars

\* A rollover has named its key at the second the upload was initiated.
C8_Witness ==
    /\ pc = "roll_create"
    /\ clock = 0
    /\ Cardinality(keys) > 1

\* C9: multipart_upload and complete_upload called with no upload raise
\* NoUploadProcess, issue no request and leave the engine and the service
\* as they are.
C9_NoSessionRejected ==
    [][ ((MultipartUpload \/ CompleteUpload) /\ upload_id = NoId) =>
            /\ pc' = "returned"
            /\ result'.err = "NoUploadProcess"
            /\ call' = NoCall
            /\ UNCHANGED <<engine, uploads>> ]_vars

\* A call on an engine with no upload has been rejected.
C9_Witness ==
    /\ pc = "returned"
    /\ result.op \in {"drive", "complete"}
    /\ result.err = "NoUploadProcess"
    /\ upload_id = NoId

\* C10: when initiate_upload returns normally, pos is 0, index is 1 and
\* uploaded_parts is empty.
C10_InitiateResetsSession ==
    (pc = "returned" /\ result.op = "initiate" /\ result.err = "none") =>
        pos = 0 /\ index = 1 /\ uploaded_parts = <<>>

\* C11: when complete_upload has returned, normally or raising, the
\* configured chunk size is the one the engine was constructed with.
C11_ChunkSizeKept ==
    (pc = "returned" /\ result.op = "complete") => size = ChunkSize

\* multipart_upload has returned normally.
DriveReturned ==
    pc = "returned" /\ result.op = "drive" /\ result.err = "none"

\* C12: every pass of multipart_upload's loop that uploads a part moves
\* pos forward, so that the loop over a file of finite size ends; and
\* when multipart_upload returns normally the chunk size is positive and
\* fewer bytes than one chunk remain past pos.
C12_DriveTerminates ==
    /\ [](DriveReturned =>
              /\ size > 0
              /\ fsize[log_path] - pos < size)
    /\ [][ (pc = "loop" /\ uploaded_parts' # uploaded_parts) =>
              pos' > pos ]_vars

\* The numbers of the parts a sequence of part records lists
PartNumbers(parts) == { parts[i].PartNumber : i \in 1..Len(parts) }

\* The offset past the last byte of a part the service holds
PartEnd(part) == part.ETag[2].off + part.len

\* C13: the rollover's completion request is for the current key and
\* token and lists exactly the parts the engine has accumulated, which are
\* the parts the service holds for that upload, the last one ending at
\* pos; on its success remote_file_count grows by one, index is 1,
\* uploaded_parts is empty, the key is a new one and pos is unchanged; the
\* create request that follows installs a new token, of an open upload
\* under the new key holding no part, and leaves pos and index unchanged.
C13_RolloverStep ==
    [][ /\ (pc = "roll_complete" /\ pc' = "roll_create") =>
              /\ call'.api = "complete"
              /\ call'.Key = obj_key
              /\ call'.UploadId = upload_id
              /\ call'.Parts = PartsList
              /\ Len(PartsList) = Len(uploads[upload_id].parts)
              /\ \A i \in 1..Len(PartsList) :
                     /\ PartsList[i].PartNumber = uploads[upload_id].parts[i].PartNumber
                     /\ PartsList[i].ETag = uploads[upload_id].parts[i].ETag
              /\ PartEnd(uploads[upload_id].parts[Len(PartsList)]) = pos
              /\ uploads'[upload_id].status = "completed"
              /\ remote_file_count' = remote_file_count + 1
              /\ index' = 1
              /\ uploaded_parts' = <<>>
              /\ obj_key' # obj_key
              /\ pos' = pos
        /\ (pc = "roll_create" /\ pc' = "loop") =>
              /\ upload_id' # upload_id
              /\ uploads'[upload_id'] =
                     [Key |-> obj_key, status |-> "open", parts |-> <<>>]
              /\ obj_key' = obj_key
              /\ pos' = pos
              /\ index' = 1 ]_vars

\* A rollover has installed the second object of the file and the loop
\* goes on past the bytes of the first.
C13_Witness ==
    /\ pc = "loop"
    /\ remote_file_count = 1
    /\ upload_id = 2
    /\ uploads[1].status = "completed"
    /\ uploaded_parts = <<>>
    /\ pos = (Ceiling - 1) * ChunkSize

\* C14: close() on an engine with an upload enters the completion, and on
\* an engine with no upload it returns normally, issues no request and
\* leaves the engine and the service as they are.
C14_CloseWithoutSession ==
    [][ /\ (Close /\ upload_id # NoId) => pc' \in {"comp_part", "comp_final"}
        /\ (Close /\ upload_id = NoId) =>
              /\ pc' = "returned"
              /\ result'.err = "none"
              /\ call' = NoCall
              /\ UNCHANGED <<engine, uploads>> ]_vars

\* C15: once a part upload has failed, whatever the abort requests that
\* follow answer, the handler raises the exception that names the failed
\* part and its cause.
C15_AbortBestEffort ==
    [][ (pc \in {"part_abort", "handler_abort"} /\ exc.kind = "PartUpload") =>
            \/ pc' = "handler_abort" /\ exc' = exc
            \/ /\ pc' = "returned"
               /\ result'.err = "PartUpload"
               /\ result'.part = exc.part
               /\ result'.cause = exc.cause ]_vars

\* C16: in multipart_upload, an exception that comes from a credential
\* failure of a request is raised to the caller at once, and no abort
\* request is issued for it.
C16_CredentialFailureNoAbort ==
    [][ (op = "drive" /\ exc.cause = "nocred") =>
            /\ pc' = "returned"
            /\ result'.cause = "nocred"
            /\ call'.api # "abort" ]_vars

\* C17: for a file of 0 bytes, the completion request of complete_upload
\* lists exactly one part, number 1, and the upload it completes holds
\* exactly that part, of length 0.
C17_EmptyFileOnePart ==
    (call.api = "complete" /\ op = "complete" /\ fsize[log_path] = 0) =>
        /\ Len(call.Parts) = 1
        /\ call.Parts[1].PartNumber = 1
        /\ Len(uploads[call.UploadId].parts) = 1
        /\ uploads[call.UploadId].parts[1].PartNumber = 1
        /\ uploads[call.UploadId].parts[1].len = 0

\* complete_upload has returned normally.
CompleteReturned ==
    pc = "returned" /\ result.op = "complete" /\ result.err = "none"

\* Byte b of the file of the upload is in a part of a completed upload.
Covered(b) ==
    \E tok \in 1..Len(uploads) :
        /\ uploads[tok].status = "completed"
        /\ \E i \in 1..Len(uploads[tok].parts) :
               LET part == uploads[tok].parts[i]
               IN  /\ part.ETag[2].path = log_path
                   /\ part.ETag[2].off <= b
                   /\ b < PartEnd(part)

\* C18: when complete_upload returns normally, no byte of the file is
\* left un-uploaded: every byte of the file is in a part of an object the
\* engine has finalized.
C18_CompleteLeavesNoBytes ==
    CompleteReturned => \A b \in 0..(fsize[log_path] - 1) : Covered(b)

\* C19: when the create request of initiate_upload fails, no upload is
\* marked in progress and no token is held; the engine is never left
\* where initiate_upload raises AlreadyInProgress while multipart_upload
\* and complete_upload raise NoUploadProcess.
C19_FailedCreateLeavesIdle ==
    /\ (pc = "returned" /\ result.op = "initiate" /\ result.err \in Errors) =>
           ~upload_in_progress /\ upload_id = NoId
    /\ ~(AlreadyInProgress /\ NoUploadProcess)

\* C20: an abort request is never issued for a token the service has
\* already aborted, nor twice in a row for the same token.
C20_AbortOnce ==
    [][ call'.api = "abort" =>
            /\ uploads[call'.UploadId].status # "aborted"
            /\ ~(call.api = "abort" /\ call.UploadId = call'.UploadId) ]_vars

====
